---- MODULE Spec2Model ----
(***************************************************************************)
(* Venus ERP Sync API (cloud_api.py): the license gate `verify` and the    *)
(* four batch sync handlers, over a relational store with transactions.    *)
(*                                                                         *)
(* Each HTTP request runs in its own database session.  `verify` (select,  *)
(* device upsert, commit) is one step; a sync handler is the gate step,    *)
(* then one step per record of p.data, then the commit.  Rows written by a *)
(* batch stay in the session's transaction until its commit; an INSERT ... *)
(* ON CONFLICT on a key that another open transaction has written waits    *)
(* for that transaction to end (the statement is not enabled before); how  *)
(* the store resolves a deadlock between two such waits is not modelled.   *)
(*                                                                         *)
(* The handlers of different routes share no table but `devices`, so one   *)
(* behaviour exercises /api/verify-license and one sync route, `route`.    *)
(* Spec runs two sessions with short batches; SpecBatch runs one session   *)
(* with one long batch, whose records carry malformed line items;          *)
(* SpecItems runs one session with item batches whose records omit fields. *)
(*                                                                         *)
(* Column abstraction: of the columns every handler copies from the record *)
(* in the same way, the model keeps the key and one column of each kind    *)
(* (items: name, code with default '', category with default 'General',    *)
(* selling_price with default 0.0; headers: total_amount; line items:      *)
(* quantity).                                                              *)
(***************************************************************************)
EXTENDS Integers, Sequences, FiniteSets, Bags, TLC

\* ---- bounds of the model ----
MaxCalls == 2      \* requests served in one behaviour
MaxBatch == 2      \* records in one p.data
MaxItems == 1      \* line items in one record
MaxLong == 11      \* records in one p.data of a long batch (SpecBatch)

\* ---- program constants ----
HTTP_401_UNAUTHORIZED == 401
HTTP_500_INTERNAL_SERVER_ERROR == 500
ErrorLimit == 10

\* ---- value domains ----
Sessions == {"s1", "s2"}
TenantIds == {"T1", "T2"}
PresentedTenantIds == TenantIds \cup {"T0"}
LicenseKeys == {"K1", "K2"}
DeviceIds == {"D1", "D2"}
LocalIds == {"L1"}
Names == {"A"}
RawNumbers == {"10", "20", "abc"}
RawQuantities == {"1"}
Statuses == {"active", "suspended", "expired"}
SyncRoutes == {"items", "sales", "purchases", "expenses"}

VARIABLES
    tenants,            \* tenants table: tenant_id -> row
    devices,            \* devices table: set of rows
    db,                 \* record tables, committed rows
    route,              \* the sync route this behaviour exercises
    clock,              \* NOW(), advanced by every request
    pc,                 \* per session: position of its handler
    request,            \* the request just received (NoRequest after any other step)
    p,                  \* per session: the Payload fields its loop reads
    success_count,      \* per session: handler local
    item_success_count, \* per session: handler local
    errors,             \* per session: handler local
    txn,                \* per session: the open transaction
    response            \* the response just sent (NoResponse after any other step)

vars == <<tenants, devices, db, route, clock, pc, request, p, success_count,
          item_success_count, errors, txn, response>>

\* ---- Python helpers ----

\* dict.get(key, default)
Get(rec, key, default) == IF key \in DOMAIN rec THEN rec[key] ELSE default

\* float(v) succeeds on numeric text and raises ValueError otherwise
IsFloat(v) == v \in {"0", "1", "10", "20"}

Float(v) ==
    CASE v = "0" -> 0
      [] v = "1" -> 1
      [] v = "10" -> 10
      [] v = "20" -> 20

Min(a, b) == IF a < b THEN a ELSE b

RECURSIVE SeqToBag(_)
SeqToBag(s) ==
    IF s = <<>> THEN EmptyBag
    ELSE SetToBag({Head(s)}) (+) SeqToBag(Tail(s))

\* ---- request bodies ----

ItemLists == UNION {[1..n -> [qty : RawQuantities]] : n \in 0..MaxItems}

\* records of /api/sync/items.  The handler reads nothing of a record after
\* the field that makes it fail, so one record stands for each failure.
ItemRecords ==
    [local_id : LocalIds, name : Names, price : RawNumbers]
        \cup [name : Names, price : {"10"}]
        \cup [local_id : LocalIds, price : {"10"}]

\* records of /api/sync/sales, /purchases, /expenses; a record that fails
\* carries line items, which the handler then never reaches
DocRecords ==
    {r \in [local_id : LocalIds, total : RawNumbers, items : ItemLists] :
        r.total = "abc" => r.items # <<>>}
        \cup [total : {"10"}, items : ItemLists \ {<<>>}]

\* records of /api/sync/items that carry every field, only the required
\* fields, or lack a required field
SparseItemRecords ==
    [local_id : LocalIds, name : Names, code : {"C1"}, category : {"Food"}, price : {"10"}]
        \cup [local_id : LocalIds, name : Names]
        \cup [name : Names, code : {"C1"}, category : {"Food"}, price : {"10"}]
        \cup [local_id : LocalIds, code : {"C1"}, category : {"Food"}, price : {"20"}]

\* a long batch: the records of /api/sync/items ...
LongItemRecords ==
    [local_id : LocalIds, name : Names, price : {"10"}] \cup [name : Names, price : {"10"}]

\* ... and of the other routes, whose line items are none or a malformed one,
\* a good one and a malformed one
MixedItems == <<[qty |-> "abc"], [qty |-> "1"], [qty |-> "abc"]>>

LongDocRecords ==
    [local_id : LocalIds, total : {"10"}, items : {<<>>, MixedItems}]
        \cup [total : {"10"}, items : {MixedItems}]

LongRecords(ep) == IF ep = "items" THEN LongItemRecords ELSE LongDocRecords

\* the records it takes to pass the limit of errors[:10]: a record of
\* sync_items appends one error at most, a record with line items several
LongLen(ep) == IF ep = "items" THEN MaxLong ELSE (MaxLong + 1) \div 2

\* ---- storage ----

LineTable(ep) ==
    CASE ep = "sales" -> "sale_items"
      [] ep = "purchases" -> "purchase_items"
      [] ep = "expenses" -> "expense_items"

\* mutant: the unique key is local_id alone
HasLocalId(T, t, l) == \E r \in T : r.local_id = l

\* a row of table T with the unique key (tenant_id, local_id)
HasKey(T, t, l) == \E r \in T : r.tenant_id = t /\ r.local_id = l

SameKey(r, row) == r.tenant_id = row.tenant_id /\ r.local_id = row.local_id

\* mutant: an INSERT without its ON CONFLICT clause, on a table without the key
PlainInsert(visible, rows, row) == rows \cup {row}

\* mutant: the upsert keeps the stored row (DO NOTHING)
OnConflictKeepFirst(visible, rows, row) ==
    IF HasKey(visible, row.tenant_id, row.local_id) THEN rows ELSE rows \cup {row}

\* mutant: the insert overwrites the stored row (DO UPDATE)
OnConflictOverwrite(visible, rows, row) ==
    {r \in rows : ~SameKey(r, row)} \cup {row}

\* INSERT ... ON CONFLICT (tenant_id, local_id) DO UPDATE SET <columns> = EXCLUDED.<columns>
\* in a transaction that sees the rows `visible` and has written `rows`
OnConflictDoUpdate(visible, rows, row) ==
    {r \in rows : ~SameKey(r, row)} \cup {row}

\* INSERT ... ON CONFLICT (tenant_id, local_id) DO NOTHING
OnConflictDoNothing(visible, rows, row) ==
    IF HasKey(visible, row.tenant_id, row.local_id) THEN rows ELSE rows \cup {row}

\* mutant: the upsert refreshes last_seen and keeps the row's tenant
DeviceUpsertKeepsTenant(D, dev, tid, now) ==
    IF \E r \in D : r.device_id = dev
    THEN {IF r.device_id = dev THEN [r EXCEPT !.last_seen = now] ELSE r : r \in D}
    ELSE D \cup {[device_id |-> dev, tenant_id |-> tid, last_seen |-> now]}

\* INSERT INTO devices ... ON CONFLICT (device_id)
\* DO UPDATE SET last_seen = NOW(), tenant_id = EXCLUDED.tenant_id
DeviceUpsert(D, dev, tid, now) ==
    {r \in D : r.device_id # dev}
        \cup {[device_id |-> dev, tenant_id |-> tid, last_seen |-> now]}

NoTxn == [rows |-> {}, lines |-> EmptyBag]

NoPayload == [endpoint |-> "none", tenant_id |-> "T0", len |-> 0, data |-> <<>>]

NoRequest ==
    [session |-> "none", endpoint |-> "none", tenant_id |-> "T0",
     license_key |-> "K1", device_id |-> "D1"]

\* another session's open transaction has written the row (tenant_id, local_id)
\* of this endpoint's table, so a conflicting INSERT waits for it
LockedByOther(s, ep, t, l) ==
    \E o \in Sessions \ {s} :
        /\ pc[o] = "loop"
        /\ p[o].endpoint = ep
        /\ HasKey(txn[o].rows, t, l)

\* the rows of table T that a transaction which has written `rows` sees
Visible(T, rows) == {r \in T : ~HasKey(rows, r.tenant_id, r.local_id)} \cup rows

\* mutant: the commit replaces the table by the rows of the transaction
CommitReplacesTable(T, W) == W

\* db.commit(): an updated row replaces its committed version, an inserted
\* row is added
CommitRows(T, W) == Visible(T, W)

\* ---- responses ----

Resp(code, status, detail, n, ni, ne, errs) ==
    [session |-> "none", code |-> code, status |-> status, detail |-> detail,
     count |-> n, items_count |-> ni, errors_count |-> ne, errors |-> errs]

NoResponse == Resp(0, "none", "", 0, 0, 0, <<>>)

InvalidLicense ==
    Resp(HTTP_401_UNAUTHORIZED, "error", "Invalid tenant ID or license key", 0, 0, 0, <<>>)

SubscriptionDetail(st) ==
    CASE st = "suspended" -> "Subscription suspended. Please renew your subscription."
      [] st = "expired" -> "Subscription expired. Please renew your subscription."
      [] OTHER -> "Subscription. Please renew your subscription."

InactiveSubscription(st) ==
    Resp(HTTP_401_UNAUTHORIZED, "error", SubscriptionDetail(st), 0, 0, 0, <<>>)

LicenseVerified == Resp(200, "active", "License verified successfully", 0, 0, 0, <<>>)

NoData == Resp(200, "success", "No data to sync", 0, 0, 0, <<>>)

SyncFailed == Resp(HTTP_500_INTERNAL_SERVER_ERROR, "error", "Failed to sync", 0, 0, 0, <<>>)

\* mutant: the summary carries every error message
SummaryUnbounded(n, ni, errs) == Resp(200, "success", "", n, ni, Len(errs), errs)

\* the summary a sync handler returns after db.commit()
Summary(n, ni, errs) ==
    Resp(200, "success", "", n, ni, Len(errs), SubSeq(errs, 1, Min(ErrorLimit, Len(errs))))

\* ---- the license gate ----

\* mutant: the WHERE clause without the license key
SelectTenantById(tid, key) ==
    IF tid \in TenantIds THEN {tenants[tid]} ELSE {}

\* SELECT ... FROM tenants WHERE tenant_id = :tenant_id AND license_key = :license_key
SelectTenant(tid, key) ==
    IF tid \in TenantIds /\ tenants[tid].license_key = key
    THEN {tenants[tid]} ELSE {}

\* mutant: the status check rejects an expired subscription only
VerifyResponseExpiredOnly(tid, key) ==
    LET result == SelectTenant(tid, key) IN
    IF result = {} THEN InvalidLicense
    ELSE LET row == CHOOSE r \in result : TRUE IN
         IF row.subscription_status = "expired"
         THEN InactiveSubscription(row.subscription_status)
         ELSE LicenseVerified

\* what verify answers: the 401 of a missing row, the 401 of an inactive
\* subscription, or success
VerifyResponse(tid, key) ==
    LET result == SelectTenant(tid, key) IN
    IF result = {} THEN InvalidLicense
    ELSE LET row == CHOOSE r \in result : TRUE IN
         IF row.subscription_status # "active"
         THEN InactiveSubscription(row.subscription_status)
         ELSE LicenseVerified

\* mutant: only the 401 of a missing row leaves the sync handler
RaisesOnMissingRowOnly(answer) == answer = InvalidLicense

\* verify raises HTTPException, which leaves the sync handler that called it
Raises(answer) == answer # LicenseVerified

\* mutant: the heartbeat is written before the subscription check
VerifyWritesBeforeCheck(tid, key, dev, now) ==
    IF SelectTenant(tid, key) # {}
    THEN devices' = DeviceUpsert(devices, dev, tid, now)
    ELSE UNCHANGED devices

\* what verify writes: on success the device upsert, committed at once
VerifyWrites(tid, key, dev, now) ==
    IF VerifyResponse(tid, key) = LicenseVerified
    THEN devices' = DeviceUpsert(devices, dev, tid, now)
    ELSE UNCHANGED devices

\* ---- one record of a batch ----

\* the exception a record of sync_items raises before any statement is sent:
\* a required field is missing, or float() rejects a number ("" when none)
ItemRecordError(rec) ==
    IF "local_id" \notin DOMAIN rec THEN "Missing required field: local_id"
    ELSE IF "name" \notin DOMAIN rec THEN "Missing required field: name"
    ELSE IF ~IsFloat(Get(rec, "price", "0")) THEN "could not convert string to float"
    ELSE ""

\* the same for a record of sync_sales, sync_purchases, sync_expenses
DocRecordError(rec) ==
    IF "local_id" \notin DOMAIN rec THEN "Missing required field: local_id"
    ELSE IF ~IsFloat(Get(rec, "total", "0")) THEN "could not convert string to float"
    ELSE ""

RecordError(ep, rec) ==
    IF ep = "items" THEN ItemRecordError(rec) ELSE DocRecordError(rec)

\* the stored row of the key of (tid, rec), if any
StoredItems(tid, rec) ==
    {r \in db.items : r.tenant_id = tid /\ r.local_id = rec["local_id"]}

\* mutant: a column whose field the record omits keeps its stored value
ItemRowKeepsOmitted(tid, rec) ==
    LET old == StoredItems(tid, rec)
        kept(col, default) ==
            IF old = {} THEN default ELSE (CHOOSE r \in old : TRUE)[col] IN
    [tenant_id |-> tid, local_id |-> rec["local_id"],
     name |-> Get(rec, "name", ""),
     code |-> IF "code" \in DOMAIN rec THEN rec["code"] ELSE kept("code", ""),
     category |-> IF "category" \in DOMAIN rec THEN rec["category"]
                  ELSE kept("category", "General"),
     selling_price |-> IF "price" \in DOMAIN rec THEN Float(rec["price"])
                       ELSE kept("selling_price", 0)]

\* the parameters of the INSERT INTO items
ItemRow(tid, rec) ==
    [tenant_id |-> tid, local_id |-> rec["local_id"],
     name |-> Get(rec, "name", ""),
     code |-> Get(rec, "code", ""),
     category |-> Get(rec, "category", "General"),
     selling_price |-> Float(Get(rec, "price", "0"))]

\* the parameters of the INSERT INTO sales / purchases / expenses
DocRow(tid, rec) ==
    [tenant_id |-> tid, local_id |-> rec["local_id"],
     total_amount |-> Float(Get(rec, "total", "0"))]

HeaderRow(ep, tid, rec) ==
    IF ep = "items" THEN ItemRow(tid, rec) ELSE DocRow(tid, rec)

\* the parameters of the INSERT INTO sale_items / purchase_items / expense_items
LineRow(tid, rec, item) ==
    [tenant_id |-> tid, local_id |-> rec["local_id"],
     quantity |-> Float(Get(item, "qty", "0"))]

LineOk(item) == IsFloat(Get(item, "qty", "0"))

\* errors.append(f"Sale {record.get('local_id', 'unknown')}: {str(e)}")
RecordErrorEntry(rec, msg) ==
    [local_id |-> Get(rec, "local_id", "unknown"), item |-> FALSE, msg |-> msg]

\* errors.append(f"Sale {record.get('local_id')} item error: {str(e)}")
LineErrorEntry(rec, msg) ==
    [local_id |-> Get(rec, "local_id", "unknown"), item |-> TRUE, msg |-> msg]

\* mutant: the first line item that fails ends the loop over the line items
RECURSIVE ValidPrefix(_)
ValidPrefix(its) ==
    IF its = <<>> \/ ~LineOk(Head(its)) THEN <<>>
    ELSE <<Head(its)>> \o ValidPrefix(Tail(its))

LinesInsertedUntilError(tid, rec) ==
    LET ok == ValidPrefix(Get(rec, "items", <<>>)) IN
    SeqToBag([i \in 1..Len(ok) |-> LineRow(tid, rec, ok[i])])

\* the inner loop over record.get('items', []): the rows inserted ...
LinesInserted(tid, rec) ==
    LET ok == SelectSeq(Get(rec, "items", <<>>), LineOk) IN
    SeqToBag([i \in 1..Len(ok) |-> LineRow(tid, rec, ok[i])])

\* ... and the errors appended, in order
LineErrors(rec) ==
    LET its == Get(rec, "items", <<>>)
        bad == SelectSeq(its, LAMBDA it : ~LineOk(it)) IN
    [i \in 1..Len(bad) |-> LineErrorEntry(rec, "could not convert string to float")]

\* mutant: the two conflict policies are exchanged
HeaderWriteSwapped(ep, rows, committed, row) ==
    IF ep = "items" THEN OnConflictDoNothing(Visible(committed, rows), rows, row)
    ELSE OnConflictDoUpdate(Visible(committed, rows), rows, row)

\* the header statement of a record, in this session's transaction
HeaderWrite(ep, rows, committed, row) ==
    IF ep = "items" THEN OnConflictDoUpdate(Visible(committed, rows), rows, row)
    ELSE OnConflictDoNothing(Visible(committed, rows), rows, row)

\* mutant: the except clause drops the error
RecordFailsUnreported(s, rec, msg) ==
    UNCHANGED <<success_count, item_success_count, txn, errors>>

\* mutant: the line items are inserted before the record is validated
RecordFailsAfterLines(s, rec, msg) ==
    LET its == Get(rec, "items", <<>>)
        lines == SeqToBag([i \in 1..Len(its) |->
                     [tenant_id |-> p[s].tenant_id,
                      local_id |-> Get(rec, "local_id", "unknown"),
                      quantity |-> Float(Get(its[i], "qty", "0"))]]) IN
    /\ errors' = [errors EXCEPT ![s] = Append(@, RecordErrorEntry(rec, msg))]
    /\ txn' = [txn EXCEPT ![s].lines = @ (+) lines]
    /\ UNCHANGED <<success_count, item_success_count>>

\* the record raises before its header statement: one error entry, next record
RecordFails(s, rec, msg) ==
    /\ errors' = [errors EXCEPT ![s] = Append(@, RecordErrorEntry(rec, msg))]
    /\ UNCHANGED <<success_count, item_success_count, txn>>

\* the header statement and the line-item loop of a valid record
RecordWrites(s, ep, rec) ==
    LET tid == p[s].tenant_id
        row == HeaderRow(ep, tid, rec) IN
    /\ success_count' = [success_count EXCEPT ![s] = @ + 1]
    /\ IF ep = "items"
       THEN /\ txn' = [txn EXCEPT ![s].rows = HeaderWrite(ep, @, db[ep], row)]
            /\ UNCHANGED <<item_success_count, errors>>
       ELSE /\ txn' = [txn EXCEPT ![s].rows = HeaderWrite(ep, @, db[ep], row),
                                  ![s].lines = @ (+) LinesInserted(tid, rec)]
            /\ item_success_count' =
                   [item_success_count EXCEPT ![s] = @ + BagCardinality(LinesInserted(tid, rec))]
            /\ errors' = [errors EXCEPT ![s] = @ \o LineErrors(rec)]

\* ---- initial state ----

\* the tenants table is written by administration only: its rows are drawn here
TenantRow(key, st, pe, ov) ==
    [license_key |-> key, subscription_status |-> st, period_end |-> pe, override |-> ov]

Init ==
    /\ tenants \in [T1 : {TenantRow("K1", "active", "past", FALSE),
                          TenantRow("K1", "suspended", "none", FALSE),
                          TenantRow("K1", "suspended", "none", TRUE),
                          TenantRow("K1", "expired", "past", FALSE)},
                    T2 : {TenantRow("K2", "active", "none", FALSE)}]
    /\ devices = {}
    /\ db = [items |-> {}, sales |-> {}, purchases |-> {}, expenses |-> {},
             sale_items |-> EmptyBag, purchase_items |-> EmptyBag,
             expense_items |-> EmptyBag]
    /\ route \in SyncRoutes
    /\ clock = 0
    /\ pc = [s \in Sessions |-> "idle"]
    /\ request = NoRequest
    /\ p = [s \in Sessions |-> NoPayload]
    /\ success_count = [s \in Sessions |-> 0]
    /\ item_success_count = [s \in Sessions |-> 0]
    /\ errors = [s \in Sessions |-> <<>>]
    /\ txn = [s \in Sessions |-> NoTxn]
    /\ response = NoResponse

\* ---- requests ----

\* the handler returns (or raises): its locals go out of scope
Return(s, answer) ==
    /\ response' = [answer EXCEPT !.session = s]
    /\ p' = [p EXCEPT ![s] = NoPayload]
    /\ pc' = [pc EXCEPT ![s] = "idle"]
    /\ success_count' = [success_count EXCEPT ![s] = 0]
    /\ item_success_count' = [item_success_count EXCEPT ![s] = 0]
    /\ errors' = [errors EXCEPT ![s] = <<>>]
    /\ txn' = [txn EXCEPT ![s] = NoTxn]

\* a request arrives: the handler runs the license gate and, for a sync
\* handler with data, enters its loop
Receive(s, ep, calls, lens) ==
    /\ pc[s] = "idle"
    /\ clock < calls
    /\ \E tid \in PresentedTenantIds, key \in LicenseKeys, dev \in DeviceIds,
          n \in lens :
        LET answer == VerifyResponse(tid, key) IN
        /\ ep = "verify" => n = 0
        /\ request' = [session |-> s, endpoint |-> ep, tenant_id |-> tid,
                       license_key |-> key, device_id |-> dev]
        /\ clock' = clock + 1
        /\ VerifyWrites(tid, key, dev, clock + 1)
        /\ IF Raises(answer) THEN Return(s, answer)
           ELSE IF ep = "verify" THEN Return(s, LicenseVerified)
           ELSE IF n = 0 THEN Return(s, NoData)
           ELSE /\ p' = [p EXCEPT ![s] = [endpoint |-> ep, tenant_id |-> tid,
                                          len |-> n, data |-> <<>>]]
                /\ pc' = [pc EXCEPT ![s] = "loop"]
                /\ response' = NoResponse
                /\ UNCHANGED <<success_count, item_success_count, errors, txn>>
    /\ UNCHANGED <<tenants, db, route>>

Request(s, ep) == Receive(s, ep, MaxCalls, 0..MaxBatch)

verify(s) == Request(s, "verify")
sync_items(s) == route = "items" /\ Request(s, "items")
sync_sales(s) == route = "sales" /\ Request(s, "sales")
sync_purchases(s) == route = "purchases" /\ Request(s, "purchases")
sync_expenses(s) == route = "expenses" /\ Request(s, "expenses")

\* the statement of record rec
Execute(s, ep, rec) ==
    IF RecordError(ep, rec) # "" THEN RecordFails(s, rec, RecordError(ep, rec))
    ELSE RecordWrites(s, ep, rec)

\* the header statement of rec waits for another transaction's row lock
Waits(s, ep, rec) ==
    /\ RecordError(ep, rec) = ""
    /\ LockedByOther(s, ep, p[s].tenant_id, rec["local_id"])

\* one iteration of `for record in p.data`
Iterate(s, ep, records) ==
    /\ pc[s] = "loop"
    /\ p[s].endpoint = ep
    /\ Len(p[s].data) < p[s].len
    /\ \E rec \in records :
        /\ ~Waits(s, ep, rec)
        /\ p' = [p EXCEPT ![s].data = Append(@, rec)]
        /\ Execute(s, ep, rec)
    /\ request' = NoRequest
    /\ response' = NoResponse
    /\ UNCHANGED <<tenants, devices, db, route, clock, pc>>

NextRecord(s, ep) == Iterate(s, ep, IF ep = "items" THEN ItemRecords ELSE DocRecords)

items_record(s) == NextRecord(s, "items")
sales_record(s) == NextRecord(s, "sales")
purchases_record(s) == NextRecord(s, "purchases")
expenses_record(s) == NextRecord(s, "expenses")

\* the tables after the session's db.commit()
Committed(s) ==
    LET ep == p[s].endpoint IN
    IF ep = "items" THEN [db EXCEPT !.items = CommitRows(@, txn[s].rows)]
    ELSE [db EXCEPT ![ep] = CommitRows(@, txn[s].rows),
                    ![LineTable(ep)] = @ (+) txn[s].lines]

\* after the loop: db.commit() and the summary
Commit(s) ==
    /\ pc[s] = "loop"
    /\ Len(p[s].data) = p[s].len
    /\ db' = Committed(s)
    /\ Return(s, Summary(success_count[s], item_success_count[s], errors[s]))
    /\ request' = NoRequest
    /\ UNCHANGED <<tenants, devices, route, clock>>

\* mutant: the heartbeat is part of the batch's transaction and rolled back
\* with it
FatalRollsBackHeartbeat(s) ==
    /\ pc[s] = "loop"
    /\ devices' = {r \in devices : r.tenant_id # p[s].tenant_id}
    /\ Return(s, SyncFailed)
    /\ request' = NoRequest
    /\ UNCHANGED <<tenants, db, route, clock>>

\* mutant: every statement is committed as it is executed, so the rollback
\* undoes nothing
FatalKeepsWrites(s) ==
    /\ pc[s] = "loop"
    /\ db' = Committed(s)
    /\ Return(s, SyncFailed)
    /\ request' = NoRequest
    /\ UNCHANGED <<tenants, devices, route, clock>>

\* the storage connection is lost during the batch: db.rollback() and a 500
Fatal(s) ==
    /\ pc[s] = "loop"
    /\ Return(s, SyncFailed)
    /\ request' = NoRequest
    /\ UNCHANGED <<tenants, devices, db, route, clock>>

Next ==
    \E s \in Sessions :
        \/ verify(s)
        \/ sync_items(s)
        \/ sync_sales(s)
        \/ sync_purchases(s)
        \/ sync_expenses(s)
        \/ items_record(s)
        \/ sales_record(s)
        \/ purchases_record(s)
        \/ expenses_record(s)
        \/ Commit(s)
        \/ Fatal(s)

Spec == Init /\ [][Next]_vars

\* ---- one long batch ----

\* one session serves one sync request of the route, with up to LongLen records
long_request(s) == Receive(s, route, 1, 1..LongLen(route))

long_record(s) == Iterate(s, route, LongRecords(route))

NextBatch ==
    \E s \in {"s1"} :
        \/ long_request(s)
        \/ long_record(s)
        \/ Commit(s)
        \/ Fatal(s)

SpecBatch == Init /\ [][NextBatch]_vars

\* ---- item batches with omitted fields ----

sparse_request(s) == route = "items" /\ Receive(s, "items", MaxCalls, 1..MaxBatch)

sparse_record(s) == Iterate(s, "items", SparseItemRecords)

NextItems ==
    \E s \in {"s1"} :
        \/ sparse_request(s)
        \/ sparse_record(s)
        \/ Commit(s)
        \/ Fatal(s)

SpecItems == Init /\ [][NextItems]_vars

\* ---- properties ----

\* the outcomes of the license gate, as the caller sees them
Unauthorized(r) ==
    r.code = HTTP_401_UNAUTHORIZED /\ r.detail = "Invalid tenant ID or license key"

SubscriptionInactive(r) ==
    /\ r.code = HTTP_401_UNAUTHORIZED
    /\ r.detail \in {SubscriptionDetail(st) : st \in Statuses \ {"active"}}

\* this step received a request (and ran the license gate on it)
GateStep == request'.session # "none"

\* the presented credentials are those of a stored tenant
KnownTenant(tid, key) == tid \in TenantIds /\ tenants[tid].license_key = key

\* C1: for a tenant whose subscription_status is not 'active' and that has no
\* override, verify with the correct tenant_id and license_key fails with
\* SubscriptionInactive and leaves the devices table as it was.
C1_InactiveRejected ==
    [][(/\ GateStep
        /\ KnownTenant(request'.tenant_id, request'.license_key)
        /\ tenants[request'.tenant_id].subscription_status # "active"
        /\ ~tenants[request'.tenant_id].override)
       => (/\ SubscriptionInactive(response')
           /\ response'.session = request'.session
           /\ devices' = devices)]_vars

C1_Witness ==
    /\ request.endpoint = "verify"
    /\ request.tenant_id = "T1"
    /\ request.license_key = "K1"
    /\ tenants["T1"].subscription_status = "suspended"
    /\ ~tenants["T1"].override
    /\ SubscriptionInactive(response)
    /\ devices # {}

\* C2: verify fails with Unauthorized when no tenant row has the presented
\* tenant_id or the stored license_key differs from the presented one, and
\* then no table is changed.
C2_UnauthorizedRejected ==
    [][(GateStep /\ ~KnownTenant(request'.tenant_id, request'.license_key))
       => (/\ Unauthorized(response')
           /\ response'.session = request'.session
           /\ tenants' = tenants
           /\ devices' = devices
           /\ db' = db)]_vars

C2_Witness ==
    /\ request.tenant_id = "T1"
    /\ request.license_key = "K2"
    /\ Unauthorized(response)
    /\ devices # {}
    /\ db[route] # {}

\* C3: when the license gate of a sync handler fails (Unauthorized or
\* SubscriptionInactive), the batch is aborted: the handler returns the
\* failure at once, opens no transaction and leaves every record table as it
\* was; only a session whose gate passed is ever in the batch loop.
C3_GateAbortsBatch ==
    [][/\ \A s \in Sessions :
            (/\ GateStep
             /\ request'.session = s
             /\ request'.endpoint \in SyncRoutes
             /\ \/ ~KnownTenant(request'.tenant_id, request'.license_key)
                \/ tenants[request'.tenant_id].subscription_status # "active")
            => (/\ Unauthorized(response') \/ SubscriptionInactive(response')
                /\ pc'[s] = "idle"
                /\ txn'[s] = NoTxn
                /\ db' = db)
       /\ \A s \in Sessions :
            pc'[s] = "loop" =>
                /\ p'[s].tenant_id \in TenantIds
                /\ tenants'[p'[s].tenant_id].subscription_status = "active"]_vars

C3_Witness ==
    /\ request.endpoint = "sales"
    /\ request.tenant_id = "T1"
    /\ SubscriptionInactive(response)
    /\ db.sales # {}
    /\ db.sale_items # EmptyBag

\* ---- properties of the sync handlers ----

DocRoutes == {"sales", "purchases", "expenses"}

\* this step is session s's db.commit() and summary
CommitStep(s) ==
    /\ pc[s] = "loop"
    /\ pc'[s] = "idle"
    /\ response'.session = s
    /\ response'.code = 200

UniqueKeys(T) == \A r1, r2 \in T : SameKey(r1, r2) => r1 = r2

\* a record of a sales / purchases / expenses batch that lacks local_id or
\* carries a total that is no number
DocMalformed(rec) ==
    \/ "local_id" \notin DOMAIN rec
    \/ ("total" \in DOMAIN rec /\ rec["total"] \notin {"0", "1", "10", "20"})

\* the items row a well-formed record stands for: a field it omits is the
\* default of its column
ItemOf(tid, rec) ==
    [tenant_id |-> tid, local_id |-> rec["local_id"], name |-> rec["name"],
     code |-> IF "code" \in DOMAIN rec THEN rec["code"] ELSE "",
     category |-> IF "category" \in DOMAIN rec THEN rec["category"] ELSE "General",
     selling_price |-> IF "price" \in DOMAIN rec THEN Float(rec["price"]) ELSE 0]

ItemMalformed(rec) ==
    \/ "local_id" \notin DOMAIN rec
    \/ "name" \notin DOMAIN rec
    \/ ("price" \in DOMAIN rec /\ rec["price"] \notin {"0", "1", "10", "20"})

WellFormed(ep, data) ==
    SelectSeq(data, LAMBDA r : IF ep = "items" THEN ~ItemMalformed(r) ELSE ~DocMalformed(r))

Malformed(ep, data) ==
    SelectSeq(data, LAMBDA r : IF ep = "items" THEN ItemMalformed(r) ELSE DocMalformed(r))

Range(f) == {f[i] : i \in DOMAIN f}

\* C4: every record table holds at most one header row per (tenant_id,
\* local_id), whatever batches ran and however they interleaved; a sales batch
\* all of whose records are already stored (a second submission) is answered
\* with success and leaves the sales header rows exactly as they were.
C4_UniqueHeaders ==
    [][/\ \A ep \in SyncRoutes : UniqueKeys(db'[ep])
       /\ \A s \in Sessions :
            (/\ CommitStep(s)
             /\ p[s].endpoint = "sales"
             /\ \A rec \in Range(WellFormed("sales", p[s].data)) :
                    HasKey(db.sales, p[s].tenant_id, rec["local_id"]))
            => (/\ db'.sales = db.sales
                /\ response'.status = "success"
                /\ response'.count = Len(WellFormed("sales", p[s].data)))]_vars

\* a second submission is about to commit: its record is stored already
C4_Witness ==
    \E s \in Sessions :
        /\ pc[s] = "loop"
        /\ p[s].endpoint = "sales"
        /\ Len(p[s].data) = p[s].len
        /\ success_count[s] = 2
        /\ \A rec \in Range(p[s].data) :
               /\ "local_id" \in DOMAIN rec
               /\ HasKey(db.sales, p[s].tenant_id, rec["local_id"])

\* the line-item rows of table B under (tenant_id, local_id), with their counts
LinesOf(B, tid, lid) ==
    LET S == {r \in BagToSet(B) : r.tenant_id = tid /\ r.local_id = lid} IN
    [r \in S |-> CopiesIn(r, B)]

BagEq(B1, B2) ==
    \A r \in BagToSet(B1) \cup BagToSet(B2) : CopiesIn(r, B1) = CopiesIn(r, B2)

\* the line items a batch submits under local_id lid
RECURSIVE SubmittedLines(_, _, _)
SubmittedLines(tid, lid, data) ==
    IF data = <<>> THEN EmptyBag
    ELSE LET rec == Head(data)
             its == IF "items" \in DOMAIN rec THEN rec["items"] ELSE <<>> IN
         (IF "local_id" \in DOMAIN rec /\ rec["local_id"] = lid
          THEN SeqToBag([i \in 1..Len(its) |->
                   [tenant_id |-> tid, local_id |-> lid, quantity |-> Float(its[i]["qty"])]])
          ELSE EmptyBag) (+) SubmittedLines(tid, lid, Tail(data))

\* C5: when a parent record whose (tenant_id, local_id) is already stored is
\* synced again, the line items stored under that key after the sync are
\* exactly the line items of this submission.
C5_LineItemsReplaced ==
    [][\A s \in Sessions :
         (CommitStep(s) /\ p[s].endpoint \in DocRoutes) =>
            \A rec \in Range(WellFormed(p[s].endpoint, p[s].data)) :
                HasKey(db[p[s].endpoint], p[s].tenant_id, rec["local_id"]) =>
                    BagEq(LinesOf(db'[LineTable(p[s].endpoint)], p[s].tenant_id, rec["local_id"]),
                          SubmittedLines(p[s].tenant_id, rec["local_id"], p[s].data))]_vars

\* C6: first writer wins for sales, purchases and expenses headers: a stored
\* header row keeps every field through every later step, and no other row
\* with its key appears.
C6_FirstWriterWins ==
    [][\A ep \in DocRoutes : \A r \in db[ep] :
          /\ r \in db'[ep]
          /\ \A r2 \in db'[ep] : SameKey(r, r2) => r2 = r]_vars

\* a later sync has applied a record with a stored key and another total
C6_Witness ==
    \E s \in Sessions :
        /\ pc[s] = "loop"
        /\ p[s].endpoint \in DocRoutes
        /\ Len(p[s].data) = p[s].len
        /\ \E rec \in Range(WellFormed(p[s].endpoint, p[s].data)) :
             \E r \in db[p[s].endpoint] :
                /\ r.tenant_id = p[s].tenant_id
                /\ r.local_id = rec["local_id"]
                /\ r.total_amount # Float(rec["total"])

\* the last well-formed record of the batch under each local_id
LastOfKey(data, i) ==
    \A j \in (i + 1)..Len(data) : data[j]["local_id"] # data[i]["local_id"]

\* C7: last write wins for the item catalog: after a sync_items batch commits,
\* the one stored row of each (tenant_id, local_id) it carries has the name
\* and selling_price of the batch's last record for that key, whatever was
\* stored before.
C7_LastWriteWins ==
    [][\A s \in Sessions :
         (CommitStep(s) /\ p[s].endpoint = "items") =>
            LET data == WellFormed("items", p[s].data) IN
            \A i \in 1..Len(data) :
                LastOfKey(data, i) =>
                    /\ ItemOf(p[s].tenant_id, data[i]) \in db'.items
                    /\ Cardinality({r \in db'.items :
                            /\ r.tenant_id = p[s].tenant_id
                            /\ r.local_id = data[i]["local_id"]}) = 1]_vars

\* a later sync carries another price for a stored item
C7_Witness ==
    \E s \in Sessions :
        /\ pc[s] = "loop"
        /\ p[s].endpoint = "items"
        /\ Len(p[s].data) = p[s].len
        /\ success_count[s] = 1
        /\ \E rec \in Range(WellFormed("items", p[s].data)) :
             \E r \in db.items :
                /\ r.tenant_id = p[s].tenant_id
                /\ r.local_id = rec["local_id"]
                /\ r.selling_price # Float(rec["price"])

\* every line item of a well-formed record of the batch is well-formed
LinesWellFormed(data) ==
    \A rec \in Range(WellFormed("sales", data)) :
        "items" \in DOMAIN rec =>
            \A it \in Range(rec["items"]) : it["qty"] \in {"0", "1", "10", "20"}

\* C8: record-level failure isolation in sync_sales: in a batch whose records
\* either lack local_id (or carry a non-numeric total) or are valid, every
\* valid record has its header stored wherever it stands in the batch, no row
\* is written for a malformed record, sales_count is the number of valid
\* records, errors_count the number of malformed ones, and the error entries
\* are those of the malformed records in order, a missing local_id being
\* named as the missing field.
C8_FailureIsolation ==
    [][\A s \in Sessions :
         (CommitStep(s) /\ p[s].endpoint = "sales" /\ LinesWellFormed(p[s].data)) =>
            LET tid == p[s].tenant_id
                good == WellFormed("sales", p[s].data)
                bad == Malformed("sales", p[s].data) IN
            /\ response'.count = Len(good)
            /\ response'.errors_count = Len(bad)
            /\ \A rec \in Range(good) : HasKey(db'.sales, tid, rec["local_id"])
            /\ \A r \in db'.sales \ db.sales :
                   \E rec \in Range(good) :
                       /\ r.tenant_id = tid
                       /\ r.local_id = rec["local_id"]
                       /\ r.total_amount = Float(Get(rec, "total", "0"))
            /\ \A r \in BagToSet(db'.sale_items) :
                   CopiesIn(r, db'.sale_items) # CopiesIn(r, db.sale_items) =>
                       \E rec \in Range(good) : r.tenant_id = tid /\ r.local_id = rec["local_id"]
            /\ Len(response'.errors) = Len(bad)
            /\ \A i \in 1..Len(bad) :
                   /\ ~response'.errors[i].item
                   /\ "local_id" \notin DOMAIN bad[i] =>
                          /\ response'.errors[i].msg = "Missing required field: local_id"
                          /\ response'.errors[i].local_id = "unknown"
                   /\ "local_id" \in DOMAIN bad[i] =>
                          response'.errors[i].local_id = bad[i]["local_id"]]_vars

\* a batch with a record that lacks local_id and a valid one was answered
C8_Witness ==
    /\ route = "sales"
    /\ response.status = "success"
    /\ response.count = 1
    /\ response.errors_count = 1
    /\ response.errors[1].msg = "Missing required field: local_id"
    /\ db.sales # {}

\* C9: for a tenant whose period_end lies in the past and that has no
\* override, verify with correct credentials fails with SubscriptionInactive,
\* leaves the tenant's subscription_status 'expired' and writes no Device row.
C9_ExpiryTransition ==
    [][(/\ GateStep
        /\ KnownTenant(request'.tenant_id, request'.license_key)
        /\ tenants[request'.tenant_id].period_end = "past"
        /\ ~tenants[request'.tenant_id].override)
       => (/\ SubscriptionInactive(response')
           /\ tenants'[request'.tenant_id].subscription_status = "expired"
           /\ devices' = devices)]_vars

\* the license gate let this request through
GatePassed == GateStep /\ ~Unauthorized(response') /\ ~SubscriptionInactive(response')

\* C10: every device_id has at most one Device row; a successful license gate
\* check (of verify or of a sync handler) by tenant T with device D leaves
\* the row (D, T) with last_seen refreshed, whatever tenant D was bound to,
\* and the other devices' rows as they were; no other step changes the
\* devices table: each device is bound to the tenant of the last successful
\* check that presented it.
C10_DeviceBinding ==
    [][/\ \A r1, r2 \in devices' : r1.device_id = r2.device_id => r1 = r2
       /\ GatePassed =>
            /\ [device_id |-> request'.device_id, tenant_id |-> request'.tenant_id,
                last_seen |-> clock'] \in devices'
            /\ tenants[request'.tenant_id].subscription_status = "active"
            /\ {r \in devices' : r.device_id # request'.device_id}
                 = {r \in devices : r.device_id # request'.device_id}
       /\ ~GatePassed => devices' = devices]_vars

\* a device bound to T1 by an open batch's gate has been rebound to T2
C10_Witness ==
    /\ \E s \in Sessions : pc[s] = "loop" /\ p[s].tenant_id = "T1"
    /\ devices = {[device_id |-> "D1", tenant_id |-> "T2", last_seen |-> 2]}
    /\ request.tenant_id = "T2"
    /\ request.endpoint = "verify"
    /\ response = [LicenseVerified EXCEPT !.session = request.session]

\* ---- transactions ----

\* this step is session s's db.rollback() and 500
FatalStep(s) ==
    /\ pc[s] = "loop"
    /\ pc'[s] = "idle"
    /\ response'.session = s
    /\ response'.code = HTTP_500_INTERNAL_SERVER_ERROR

NoRecords ==
    [items |-> {}, sales |-> {}, purchases |-> {}, expenses |-> {},
     sale_items |-> EmptyBag, purchase_items |-> EmptyBag, expense_items |-> EmptyBag]

\* the record writes of a batch are one transaction: the record tables change
\* in the step of a db.commit() only, which stores every row the batch has
\* written, and a batch that fails fatally leaves them as they were
RecordWritesAtomic ==
    /\ db' # db => \E s \in Sessions : CommitStep(s)
    /\ \A s \in Sessions :
        /\ FatalStep(s) => db' = db
        /\ CommitStep(s) =>
            LET ep == p[s].endpoint IN
            /\ \A rec \in Range(WellFormed(ep, p[s].data)) :
                   HasKey(db'[ep], p[s].tenant_id, rec["local_id"])
            /\ txn[s].rows \subseteq db'[ep]
            /\ ep \in DocRoutes =>
                   BagEq(db'[LineTable(ep)], db[LineTable(ep)] (+) txn[s].lines)

\* C11 (as amended): each sync batch applies its records as one transaction:
\* when an unrecoverable failure occurs at any point during the batch, the
\* record tables hold none of the header and line-item writes of that call;
\* otherwise all of them are committed together, in the one step of the
\* commit.  The Device heartbeat of the call's license gate is not part of it.
C11_BatchAtomic == [][RecordWritesAtomic]_vars

\* a batch that has written a header is part-way through its records
C11_Witness ==
    \E s \in Sessions :
        /\ pc[s] = "loop"
        /\ Len(p[s].data) < p[s].len
        /\ txn[s].rows # {}
        /\ db = NoRecords

\* C11 (as stated): each sync batch executes as one transaction; after an
\* unrecoverable failure storage holds none of the writes made by that call,
\* so when the first call the service receives fails, every table is empty.
C11_NoWriteOfFailedCall ==
    [][/\ RecordWritesAtomic
       /\ \A s \in Sessions :
            (FatalStep(s) /\ clock = 1) => (db' = NoRecords /\ devices' = {})]_vars

\* C12: no record transitions back to absent: a header row (tenant_id,
\* local_id) of committed storage is still present after every step of every
\* verify or sync call, successful or failed, of any tenant.
C12_NeverAbsent ==
    [][\A ep \in SyncRoutes : \A r \in db[ep] :
          HasKey(db'[ep], r.tenant_id, r.local_id)]_vars

\* with a header stored, a later sync call of another tenant has committed
C12_Witness ==
    /\ \E r \in db[route] : r.tenant_id = "T1"
    /\ \E r \in db[route] : r.tenant_id = "T2"
    /\ clock = 2
    /\ response.status = "success"
    /\ response.count > 0

\* ---- tenants ----

OfTenant(T, tid) == {r \in T : r.tenant_id = tid}

OfOthers(T, tid) == {r \in T : r.tenant_id # tid}

\* the header rows of tenant tid after the batch `data` has run alone on the
\* rows T of that tenant: record by record, in list order
RECURSIVE AppliedAlone(_, _, _, _)
AppliedAlone(ep, tid, T, data) ==
    IF data = <<>> THEN T
    ELSE LET rec == Head(data)
             stored == \E r \in T : r.local_id = rec["local_id"]
             after ==
                 IF ep = "items"
                 THEN IF ItemMalformed(rec) THEN T
                      ELSE {r \in T : r.local_id # rec["local_id"]}
                               \cup {ItemOf(tid, rec)}
                 ELSE IF DocMalformed(rec) \/ stored THEN T
                      ELSE T \cup {[tenant_id |-> tid, local_id |-> rec["local_id"],
                                    total_amount |-> Float(Get(rec, "total", "0"))]}
         IN AppliedAlone(ep, tid, after, Tail(data))

\* the line items with a numeric quantity of the well-formed records of a batch
RECURSIVE LinesAlone(_, _)
LinesAlone(tid, data) ==
    IF data = <<>> THEN EmptyBag
    ELSE LET rec == Head(data)
             its == SelectSeq(Get(rec, "items", <<>>),
                              LAMBDA it : it["qty"] \in {"0", "1", "10", "20"}) IN
         (IF DocMalformed(rec) THEN EmptyBag
          ELSE SeqToBag([i \in 1..Len(its) |->
                   [tenant_id |-> tid, local_id |-> rec["local_id"],
                    quantity |-> Float(its[i]["qty"])]]))
             (+) LinesAlone(tid, Tail(data))

C14_CountsAreWrites ==
    [][\A s \in Sessions :
         CommitStep(s) =>
            LET ep == p[s].endpoint IN
            IF ep = "items"
            THEN /\ response'.count = Len(WellFormed(ep, p[s].data))
                 /\ response'.count + response'.errors_count = Len(p[s].data)
            ELSE /\ response'.count = Cardinality(db'[ep] \ db[ep])
                 /\ response'.items_count =
                        BagCardinality(db'[LineTable(ep)]) - BagCardinality(db[LineTable(ep)])]_vars

\* the errors of a batch in the order they occur, by record and kind: one for
\* a malformed record, one for each malformed line item of a well-formed one
RECURSIVE ErrorsOf(_, _)
ErrorsOf(ep, data) ==
    IF data = <<>> THEN <<>>
    ELSE LET rec == Head(data)
             lid == Get(rec, "local_id", "unknown")
             its == Get(rec, "items", <<>>)
             bad == SelectSeq(its, LAMBDA it : it["qty"] \notin {"0", "1", "10", "20"})
             own ==
                 IF ep = "items"
                 THEN IF ItemMalformed(rec) THEN <<[local_id |-> lid, item |-> FALSE]>> ELSE <<>>
                 ELSE IF DocMalformed(rec) THEN <<[local_id |-> lid, item |-> FALSE]>>
                      ELSE [i \in 1..Len(bad) |-> [local_id |-> lid, item |-> TRUE]]
         IN own \o ErrorsOf(ep, Tail(data))

\* C15: the list of error messages a sync handler returns is bounded: it has
\* at most 10 entries, the first 10 errors of the batch in the order they
\* occurred, while errors_count is the total number of errors of the batch,
\* which can exceed 10; a batch without error is answered with errors_count 0.
C15_ErrorsBounded ==
    [][\A s \in Sessions :
         CommitStep(s) =>
            LET all == ErrorsOf(p[s].endpoint, p[s].data)
                sent == response'.errors IN
            /\ Len(sent) <= ErrorLimit
            /\ Len(sent) = Min(ErrorLimit, Len(all))
            /\ \A i \in 1..Len(sent) :
                   /\ sent[i].local_id = all[i].local_id
                   /\ sent[i].item = all[i].item
            /\ response'.errors_count = Len(all)
            /\ all = <<>> => (response'.errors_count = 0 /\ sent = <<>>)]_vars

\* a batch with 11 errors was answered: a record-level one first, the tenth
\* one of a line item
C15_Witness ==
    /\ response.status = "success"
    /\ response.errors_count > ErrorLimit
    /\ Len(response.errors) = ErrorLimit
    /\ ~response.errors[1].item
    /\ response.errors[ErrorLimit].item

\* ---- the subscription ----

\* C16: there is no automatic reactivation: no step of a verify or sync call
\* changes a tenant's subscription_status from a non-active value to
\* 'active' (the gateway writes no tenant row at all), so every gateway call
\* with the credentials of a tenant that is not active is rejected as
\* inactive, however many calls were rejected before, and the batch loop is
\* never entered for it.
C16_NoReactivation ==
    [][/\ \A t \in TenantIds :
            tenants[t].subscription_status # "active" =>
                tenants'[t].subscription_status = tenants[t].subscription_status
       /\ tenants' = tenants
       /\ (/\ GateStep
           /\ KnownTenant(request'.tenant_id, request'.license_key)
           /\ tenants[request'.tenant_id].subscription_status # "active")
          => (/\ SubscriptionInactive(response')
              /\ pc'[request'.session] = "idle"
              /\ tenants'[request'.tenant_id].subscription_status # "active")]_vars

\* the suspended tenant is rejected by a sync call and, still suspended, has
\* been rejected before: no call has passed the gate
C16_Witness ==
    /\ clock > 1
    /\ tenants["T1"].subscription_status = "suspended"
    /\ request.tenant_id = "T1"
    /\ request.license_key = "K1"
    /\ request.endpoint \in SyncRoutes
    /\ SubscriptionInactive(response)
    /\ devices = {}

\* ---- line items ----

\* C17: every line-item row is owned by exactly one parent record: after
\* every step, each row of sale_items / purchase_items / expense_items has
\* exactly one header row with its (tenant_id, local_id) in the parent table;
\* and the line items a commit adds are those of the batch's records whose
\* header is valid: a record that lacks local_id or carries a non-numeric
\* total writes none of its line items.
C17_LineItemOwned ==
    [][/\ \A ep \in DocRoutes : \A r \in BagToSet(db'[LineTable(ep)]) :
            Cardinality({h \in db'[ep] : SameKey(h, r)}) = 1
       /\ \A s \in Sessions :
            (CommitStep(s) /\ p[s].endpoint \in DocRoutes) =>
                BagEq(db'[LineTable(p[s].endpoint)],
                      db[LineTable(p[s].endpoint)] (+) LinesAlone(p[s].tenant_id, p[s].data))]_vars

\* a batch of a record with a non-numeric total, which carries a line item,
\* and a valid record with a line item was answered
C17_Witness ==
    /\ route \in DocRoutes
    /\ response.status = "success"
    /\ response.count = 1
    /\ response.errors_count = 1
    /\ response.errors[1].msg = "could not convert string to float"
    /\ response.items_count = 1
    /\ BagCardinality(db[LineTable(route)]) = 1

\* C18: line-item failure isolation in sync_sales, sync_purchases and
\* sync_expenses: a malformed line item (non-numeric quantity) adds one error
\* entry and is not stored; its parent header stays stored, the other line
\* items of the record, before and after it, are written, the record count
\* is the number of valid records, and items_count is the number of line
\* items inserted.
C18_LineItemIsolation ==
    [][\A s \in Sessions :
         (CommitStep(s) /\ p[s].endpoint \in DocRoutes) =>
            LET ep == p[s].endpoint
                tid == p[s].tenant_id
                good == WellFormed(ep, p[s].data)
                lines == LinesAlone(tid, p[s].data) IN
            /\ response'.count = Len(good)
            /\ \A rec \in Range(good) : HasKey(db'[ep], tid, rec["local_id"])
            /\ BagEq(db'[LineTable(ep)], db[LineTable(ep)] (+) lines)
            /\ \A r \in BagToSet(db'[LineTable(ep)]) : r.quantity \in {0, 1, 10, 20}
            /\ response'.items_count = BagCardinality(lines)
            /\ response'.errors_count = Len(ErrorsOf(ep, p[s].data))
            /\ \A i \in 1..Len(response'.errors) :
                   response'.errors[i].item = ErrorsOf(ep, p[s].data)[i].item]_vars

\* a record whose line items are a malformed one, a good one and a malformed
\* one was answered: one record, one line item, two line-item errors
C18_Witness ==
    /\ route \in DocRoutes
    /\ response.status = "success"
    /\ response.count = 1
    /\ response.items_count = 1
    /\ response.errors_count = 2
    /\ response.errors[1].item
    /\ response.errors[2].item
    /\ Cardinality(db[route]) = 1
    /\ BagCardinality(db[LineTable(route)]) = 1

\* ---- one batch, one local_id twice ----

\* both records of the batch are well-formed and carry the same local_id
SameLocalIdTwice(ep, data) ==
    /\ Len(data) = 2
    /\ Len(WellFormed(ep, data)) = 2
    /\ data[1]["local_id"] = data[2]["local_id"]

C20_HeartbeatFirst ==
    [][/\ (GatePassed /\ request'.endpoint \in SyncRoutes) =>
            /\ [device_id |-> request'.device_id, tenant_id |-> request'.tenant_id,
                last_seen |-> clock'] \in devices'
            /\ db' = db
            /\ txn'[request'.session] = NoTxn
            /\ \/ pc'[request'.session] = "loop"
               \/ response' = [NoData EXCEPT !.session = request'.session]
       /\ \A s \in Sessions :
            (FatalStep(s) \/ CommitStep(s)) => devices' = devices]_vars

\* the first call, a sync batch, has failed fatally: no record is stored, the
\* Device row of its gate is
C20_Witness ==
    /\ clock = 1
    /\ response.code = HTTP_500_INTERNAL_SERVER_ERROR
    /\ db = NoRecords
    /\ \E r \in devices : r.last_seen = 1

\* ---- item replay ----

\* the batch holds no well-formed record for the key of the stored row r
Untouched(data, r) ==
    \A rec \in Range(WellFormed("items", data)) : rec["local_id"] # r.local_id

\* C21: an item replay overwrites every mutable column: after a sync_items
\* batch commits, the row of each key it carries has, for every field the
\* last record of that key omits (code, category, price), the default of the
\* column ('', 'General', 0.0), whatever was stored, and the record's value
\* for every other field; a record missing local_id or name is an error and
\* changes no row: the stored rows of the keys without a well-formed record
\* stay as they were.
C21_ReplayResetsOmitted ==
    [][\A s \in Sessions :
         (CommitStep(s) /\ p[s].endpoint = "items") =>
            LET tid == p[s].tenant_id
                good == WellFormed("items", p[s].data)
                bad == Malformed("items", p[s].data) IN
            /\ \A i \in 1..Len(good) :
                   LastOfKey(good, i) =>
                      \A r \in db'.items :
                         (r.tenant_id = tid /\ r.local_id = good[i]["local_id"]) =>
                            /\ r.name = good[i]["name"]
                            /\ r.code = (IF "code" \in DOMAIN good[i]
                                         THEN good[i]["code"] ELSE "")
                            /\ r.category = (IF "category" \in DOMAIN good[i]
                                             THEN good[i]["category"] ELSE "General")
                            /\ r.selling_price = (IF "price" \in DOMAIN good[i]
                                                  THEN Float(good[i]["price"]) ELSE 0)
            /\ \A i \in 1..Len(good) : HasKey(db'.items, tid, good[i]["local_id"])
            /\ response'.errors_count = Len(bad)
            /\ response'.count = Len(good)
            /\ \A r \in db.items : Untouched(p[s].data, r) => r \in db'.items
            /\ \A r \in db'.items \ db.items : ~Untouched(p[s].data, r)]_vars

\* a stored item with code, category and price is replayed by a record that
\* carries local_id and name only: the row to commit has the defaults
C21_Witness ==
    \E s \in Sessions :
        /\ pc[s] = "loop"
        /\ p[s].endpoint = "items"
        /\ Len(p[s].data) = p[s].len
        /\ \E old \in db.items, new \in txn[s].rows :
              /\ SameKey(old, new)
              /\ old.code = "C1" /\ old.category = "Food" /\ old.selling_price = 10
              /\ new.code = "" /\ new.category = "General" /\ new.selling_price = 0
        /\ \E i \in 1..Len(p[s].data) : "name" \notin DOMAIN p[s].data[i]

====
